---- MODULE Spec2Model ----
(***************************************************************************)
(* State-machine model of the URDF visualizer: the viewer session          *)
(* (URDFVisualizerWindow + URDFGLWidget), its camera, scene bounds, mesh   *)
(* cache, joint-parameter mapping and the per-frame kinematic traversal.   *)
(*                                                                         *)
(* Units.  Lengths are integers in thousandths of a unit (0.1 = 100).      *)
(* Angles of origins and joint parameters are in thousandths of a radian   *)
(* (pi/2 = 1571).  Camera yaw and pitch are in half degrees (45 deg = 90), *)
(* so that "dx * 0.5" is exact for every integer pixel delta.              *)
(***************************************************************************)
EXTENDS Integers, Sequences, FiniteSets, TLC

VARIABLES
    win_model,          \* URDFVisualizerWindow.urdf_model   (<<>> = None)
    urdf_model,         \* URDFGLWidget.urdf_model           (<<>> = None)
    joint_angles,       \* URDFGLWidget.joint_angles : joint name -> parameter
    joint_sliders,      \* names of the sliders the window currently shows
    camera,             \* Camera: distance, yaw, pitch, center
    scene,              \* SceneManager: center, scene_radius
    mesh_cache,         \* MeshManager.mesh_cache (resolved paths)
    display_list_cache, \* MeshManager.display_list_cache (resolved paths)
    last_mouse_pos,     \* URDFGLWidget.last_mouse_pos       (<<>> = None)
    initialized,        \* URDFGLWidget.initialized (renderer exists)
    stack,              \* active _draw_link invocations of the frame in progress
    visits,             \* _draw_link invocations of the current/last frame, in order
    frame,              \* "idle" | "drawing" | "done" | "RecursionError"
    loadResult,         \* what the last load attempt told the caller
    lastEvent,          \* the input event handled last
    prevEvent,          \* the input event handled before it
    gestures            \* camera gestures (drags, scrolls) handled so far

vars == <<win_model, urdf_model, joint_angles, joint_sliders, camera, scene,
          mesh_cache, display_list_cache, last_mouse_pos, initialized,
          stack, visits, frame, loadResult, lastEvent, prevEvent, gestures>>

---------------------------------------------------------------------------
(* Numbers.  A float is an integer number of thousandths, or NaN.  A token *)
(* of an attribute text is such a number or BadTok, text float() rejects.  *)

NaN == 0 - 1000000000
BadTok == 0 - 1000000001

IsNaN(x) == x = NaN

Abs(x) == IF x < 0 THEN 0 - x ELSE x

FNeg(x) == IF IsNaN(x) THEN NaN ELSE 0 - x
FAdd(x, y) == IF IsNaN(x) \/ IsNaN(y) THEN NaN ELSE x + y
FSub(x, y) == IF IsNaN(x) \/ IsNaN(y) THEN NaN ELSE x - y
FHalf(x) == IF IsNaN(x) THEN NaN ELSE x \div 2
FDouble(x) == IF IsNaN(x) THEN NaN ELSE 2 * x
\* numpy's minimum/maximum propagate NaN
FMin(x, y) == IF IsNaN(x) \/ IsNaN(y) THEN NaN ELSE IF x <= y THEN x ELSE y
FMax(x, y) == IF IsNaN(x) \/ IsNaN(y) THEN NaN ELSE IF x >= y THEN x ELSE y

\* float(x) succeeds on every token but BadTok ("nan" parses to NaN)
FloatOk(tok) == tok # BadTok
AllFloatOk(text) == \A i \in DOMAIN text : FloatOk(text[i])

\* the largest r in lo..hi with r*r <= n, by bisection
RECURSIVE SqrtIn(_, _, _)
SqrtIn(n, lo, hi) ==
    IF lo = hi THEN lo
    ELSE LET mid == (lo + hi + 1) \div 2
         IN IF mid * mid <= n THEN SqrtIn(n, mid, hi) ELSE SqrtIn(n, lo, mid - 1)

\* the integer square root (46340^2 is the largest square of the integer width)
ISqrt(n) == SqrtIn(n, 0, 46340)

RECURSIVE SumSq(_)
SumSq(v) == IF v = <<>> THEN 0 ELSE Head(v) * Head(v) + SumSq(Tail(v))

NonZero(v) == {i \in DOMAIN v : v[i] # 0}

\* np.linalg.norm: Euclidean length (NaN if any component is NaN)
Norm(v) ==
    IF \E i \in DOMAIN v : IsNaN(v[i]) THEN NaN
    ELSE IF NonZero(v) = {} THEN 0
    ELSE IF Cardinality(NonZero(v)) = 1 THEN Abs(v[CHOOSE i \in NonZero(v) : TRUE])
    ELSE ISqrt(SumSq(v))

\* np.clip(x, lo, hi): NaN stays NaN
Clip(x, lo, hi) == IF IsNaN(x) THEN NaN ELSE IF x < lo THEN lo ELSE IF x > hi THEN hi ELSE x

Zeros3 == <<0, 0, 0>>

---------------------------------------------------------------------------
(* Rigid transforms.  A 4x4 homogeneous matrix with last row 0 0 0 1 is    *)
(* [R |-> 3x3 rows, t |-> translation column].                             *)

Eye3 == << <<1, 0, 0>>, <<0, 1, 0>>, <<0, 0, 1>> >>
Eye4 == [R |-> Eye3, t |-> Zeros3]

Dot3(a, b) == a[1] * b[1] + a[2] * b[2] + a[3] * b[3]
Col(M, j) == <<M[1][j], M[2][j], M[3][j]>>
MatVec(M, v) == <<Dot3(M[1], v), Dot3(M[2], v), Dot3(M[3], v)>>
MatMat(A, B) == [i \in 1..3 |-> [j \in 1..3 |-> Dot3(A[i], Col(B, j))]]
VecAdd(a, b) == [i \in 1..3 |-> a[i] + b[i]]

\* A @ B for homogeneous matrices
MatMul(A, B) == [R |-> MatMat(A.R, B.R), t |-> VecAdd(MatVec(A.R, B.t), A.t)]

\* math.cos / math.sin at the multiples of a quarter turn the model uses
Cos(a) == CASE a = 0 -> 1
            [] Abs(a) = 1571 -> 0
            [] Abs(a) = 3142 -> 0 - 1
Sin(a) == CASE a = 0 -> 0
            [] a = 1571 -> 1
            [] a = 0 - 1571 -> 0 - 1
            [] Abs(a) = 3142 -> 0

\* MathUtils.parse_vector3: any token float() rejects gives zeros(3)
parse_vector3(text) == IF AllFloatOk(text) THEN text ELSE Zeros3

\* MathUtils.rpy_to_matrix: Rz @ Ry @ Rx
rpy_to_matrix(rpy) ==
    LET r == rpy[1]  p == rpy[2]  y == rpy[3]
        Rz == << <<Cos(y), 0 - Sin(y), 0>>, <<Sin(y), Cos(y), 0>>, <<0, 0, 1>> >>
        Ry == << <<Cos(p), 0, Sin(p)>>, <<0, 1, 0>>, <<0 - Sin(p), 0, Cos(p)>> >>
        Rx == << <<1, 0, 0>>, <<0, Cos(r), 0 - Sin(r)>>, <<0, Sin(r), Cos(r)>> >>
    IN MatMat(MatMat(Rz, Ry), Rx)

\* MathUtils.create_transform
create_transform(xyz, rpy) == [R |-> rpy_to_matrix(rpy), t |-> xyz]

\* create_transform raises unless rpy unpacks into three and xyz fits T[:3, 3]
TransformOk(xyz, rpy) == Len(rpy) = 3 /\ Len(xyz) \in {1, 3}

\* xyz as assigned to T[:3, 3] (one value is broadcast)
Broadcast3(xyz) == IF Len(xyz) = 1 THEN <<xyz[1], xyz[1], xyz[1]>> ELSE xyz

\* "text if text else zeros(3)" followed by create_transform, as both callers do;
\* <<>> when the try block raises
OriginTransform(origin) ==
    LET xyz == IF origin.xyz # <<>> THEN parse_vector3(origin.xyz) ELSE Zeros3
        rpy == IF origin.rpy # <<>> THEN parse_vector3(origin.rpy) ELSE Zeros3
    IN IF TransformOk(xyz, rpy) THEN <<create_transform(Broadcast3(xyz), rpy)>> ELSE <<>>

---------------------------------------------------------------------------
(* Robot descriptions.  A document is the element tree ET.parse returns:   *)
(* link and joint elements in document order.  An optional attribute or    *)
(* sub-element is a sequence of length 0 or 1.  Attribute texts are token  *)
(* sequences (what str.split() yields), each token already a number.       *)

NoElem == <<>>

Geom(type, size, filename) == [type |-> type, size |-> size, filename |-> filename]
\* a file reference: "package://" prefix or not, then the path; path "" is no filename
File(pkg, path) == [pkg |-> pkg, path |-> path]
NoFile == File(FALSE, "")
Box(size) == Geom("box", size, NoFile)
Sphere(r) == Geom("sphere", <<r>>, NoFile)
Cylinder(r, l) == Geom("cylinder", <<r, l>>, NoFile)
Mesh(filename) == Geom("mesh", <<>>, filename)

Origin(xyz, rpy) == [xyz |-> xyz, rpy |-> rpy]
DefaultOrigin == Origin(Zeros3, Zeros3)

\* a color in thousandths per channel; the default light gray (0.8, 0.8, 0.8, 1.0)
DefaultGray == <<800, 800, 800, 1000>>

\* <color>: absent, or present with its rgba attribute (<<>> = absent or empty text,
\* else <<tokens>>)
NoColor == <<>>
ColorElem(rgba) == <<[rgba |-> rgba]>>
Rgba(tokens) == ColorElem(<<tokens>>)

\* <material name=...> inside a <visual>: a bare reference when it has no <color>
MaterialRef(name) == <<[name |-> name, color |-> NoColor]>>
InlineMaterial(name, color) == <<[name |-> name, color |-> color]>>

\* <material> directly under the root; `after` is the number of <link> elements that
\* precede it in the document
MaterialElem(name, color, after) == [name |-> name, color |-> color, after |-> after]

\* <visual> with a <geometry> child, an <origin> and an optional <material>
VisualWith(geom, origin, material) ==
    <<[geometry |-> geom, origin |-> origin, material |-> material]>>

\* <visual> with a <geometry> child and an <origin>
VisualElem(geom, origin) == VisualWith(geom, origin, <<>>)

LinkElem(name, visual) == [name |-> name, visual |-> visual]

JointElem(name, type, parent, child, axis, origin) ==
    [name |-> name, type |-> type, parent |-> parent, child |-> child,
     axis |-> axis, origin |-> origin]

\* a joint element with every attribute present
FullJoint(name, type, parent, child, axis, origin) ==
    JointElem(<<name>>, <<type>>, <<parent>>, <<child>>, <<axis>>, <<origin>>)

\* a document with <material> elements under the root
DocWith(materials, links, joints) ==
    [wellFormed |-> TRUE, materials |-> materials, links |-> links, joints |-> joints]

Doc(wellFormed, links, joints) ==
    [wellFormed |-> wellFormed, materials |-> <<>>, links |-> links, joints |-> joints]

AxisX == <<1, 0, 0>>
AxisZ == <<0, 0, 1>>

\* serial arm: base -> upper (revolute about Z) -> tool (prismatic along X);
\* the base visual is offset from the link frame; "spare" hangs on no joint
DocArm == Doc(TRUE,
    << LinkElem("base", VisualElem(Box(<<2000, 1000, 1000>>), Origin(<<1000, 0, 0>>, Zeros3))),
       LinkElem("upper", VisualElem(Cylinder(100, 1000), Origin(Zeros3, <<0, 1571, 0>>))),
       LinkElem("tool", VisualElem(Sphere(100), DefaultOrigin)),
       LinkElem("spare", VisualElem(Sphere(200), DefaultOrigin)) >>,
    << FullJoint("shoulder", "revolute", "base", "upper", AxisZ, Origin(<<0, 0, 1000>>, Zeros3)),
       FullJoint("slide", "prismatic", "upper", "tool", AxisX, Origin(<<1000, 0, 0>>, <<0, 0, 1571>>)) >>)

\* meshes: one the provider can load, one it cannot; a fixed and a continuous joint
DocMesh == Doc(TRUE,
    << LinkElem("body", VisualElem(Mesh(File(TRUE, "body.stl")), DefaultOrigin)),
       LinkElem("lid", VisualElem(Mesh(File(FALSE, "lid.stl")), DefaultOrigin)),
       LinkElem("knob", NoElem) >>,
    << FullJoint("hinge", "fixed", "body", "lid", AxisZ, Origin(<<0, 0, 500>>, Zeros3)),
       FullJoint("spin", "continuous", "lid", "knob", AxisZ, DefaultOrigin) >>)

\* a joint set with a cycle reachable from the root: A->B, B->C, C->B, B->D
DocCycle == Doc(TRUE,
    << LinkElem("A", VisualElem(Sphere(100), DefaultOrigin)),
       LinkElem("B", NoElem), LinkElem("C", NoElem),
       LinkElem("D", VisualElem(Sphere(100), DefaultOrigin)) >>,
    << FullJoint("ab", "fixed", "A", "B", AxisZ, DefaultOrigin),
       FullJoint("bc", "revolute", "B", "C", AxisZ, Origin(<<1000, 0, 0>>, Zeros3)),
       FullJoint("cb", "fixed", "C", "B", AxisZ, DefaultOrigin),
       FullJoint("bd", "fixed", "B", "D", AxisZ, DefaultOrigin) >>)

\* two joints share the child "D": not a tree, but acyclic; "floating" is not actuated
DocDiamond == Doc(TRUE,
    << LinkElem("A", NoElem), LinkElem("B", NoElem), LinkElem("D", VisualElem(Sphere(100), DefaultOrigin)) >>,
    << FullJoint("ab", "fixed", "A", "B", AxisZ, Origin(<<0, 1000, 0>>, Zeros3)),
       FullJoint("ad", "floating", "A", "D", AxisZ, DefaultOrigin),
       FullJoint("bd", "fixed", "B", "D", AxisZ, DefaultOrigin) >>)

\* box size "1 1" beside a sphere: extents of different lengths
DocRagged == Doc(TRUE,
    << LinkElem("plate", VisualElem(Box(<<1000, 1000>>), DefaultOrigin)),
       LinkElem("ball", VisualElem(Sphere(1000), DefaultOrigin)) >>,
    << FullJoint("weld", "revolute", "plate", "ball", AxisZ, DefaultOrigin) >>)

\* box size "nan 1 1"
DocNaN == Doc(TRUE,
    << LinkElem("block", VisualElem(Box(<<NaN, 1000, 1000>>), DefaultOrigin)) >>, <<>>)

\* box size "6000 0 0": radius beyond the zoom range; box size "0 0 0": radius 0
DocHuge == Doc(TRUE,
    << LinkElem("beam", VisualElem(Box(<<6000000, 0, 0>>), DefaultOrigin)) >>, <<>>)
DocPoint == Doc(TRUE,
    << LinkElem("dot", VisualElem(Box(<<0, 0, 0>>), DefaultOrigin)) >>, <<>>)

\* no link elements
DocEmpty == Doc(TRUE, <<>>, <<>>)

\* markup ET.parse rejects
DocUnparsable == Doc(FALSE, <<>>, <<>>)

\* a joint element without a <parent> child
DocNoParent == Doc(TRUE,
    << LinkElem("A", NoElem), LinkElem("B", NoElem) >>,
    << JointElem(<<"ab">>, <<"revolute">>, <<>>, <<"B">>, <<AxisZ>>, <<DefaultOrigin>>) >>)

\* the root is not the first link of the document: tip <- mid <- base, and "extra"
\* hangs on no joint
DocLate == Doc(TRUE,
    << LinkElem("tip", VisualElem(Sphere(100), DefaultOrigin)),
       LinkElem("mid", NoElem),
       LinkElem("base", VisualElem(Box(<<2000, 1000, 1000>>), DefaultOrigin)),
       LinkElem("extra", NoElem) >>,
    << FullJoint("elbow", "revolute", "mid", "tip", AxisZ, DefaultOrigin),
       FullJoint("waist", "fixed", "base", "mid", AxisZ, Origin(<<0, 0, 1000>>, Zeros3)) >>)

\* joint elements without a type attribute, without a name attribute, without a <child>
DocNoType == Doc(TRUE,
    << LinkElem("A", VisualElem(Sphere(100), DefaultOrigin)), LinkElem("B", NoElem) >>,
    << JointElem(<<"ab">>, <<>>, <<"A">>, <<"B">>, <<AxisX>>, <<DefaultOrigin>>) >>)
DocNoName == Doc(TRUE,
    << LinkElem("A", VisualElem(Sphere(100), DefaultOrigin)), LinkElem("B", NoElem) >>,
    << JointElem(<<>>, <<"fixed">>, <<"A">>, <<"B">>, <<AxisX>>, <<DefaultOrigin>>) >>)
DocNoChild == Doc(TRUE,
    << LinkElem("A", VisualElem(Sphere(100), DefaultOrigin)), LinkElem("B", NoElem) >>,
    << JointElem(<<"ab">>, <<"fixed">>, <<"A">>, <<>>, <<AxisX>>, <<DefaultOrigin>>) >>)

\* a joint element with neither <axis> nor <origin>
DocBareJoint == Doc(TRUE,
    << LinkElem("A", VisualElem(Sphere(100), DefaultOrigin)), LinkElem("B", NoElem) >>,
    << JointElem(<<"ab">>, <<"prismatic">>, <<"A">>, <<"B">>, <<>>, <<>>) >>)

\* a single box of size "2 1 1"
DocBox211 == Doc(TRUE,
    << LinkElem("crate", VisualElem(Box(<<2000, 1000, 1000>>), DefaultOrigin)) >>, <<>>)

\* one visual of each kind, and a mesh the provider cannot load
DocMix == Doc(TRUE,
    << LinkElem("crate", VisualElem(Box(<<2000, 1000, 1000>>), DefaultOrigin)),
       LinkElem("mast", VisualElem(Cylinder(100, 6000), Origin(<<0, 0, 3000>>, Zeros3))),
       LinkElem("ball", VisualElem(Sphere(1500), DefaultOrigin)),
       LinkElem("body", VisualElem(Mesh(File(TRUE, "body.stl")), DefaultOrigin)),
       LinkElem("lid", VisualElem(Mesh(File(FALSE, "lid.stl")), DefaultOrigin)) >>,
    << FullJoint("lift", "prismatic", "crate", "mast", AxisZ, DefaultOrigin),
       FullJoint("swing", "revolute", "mast", "ball", AxisX, Origin(<<0, 0, 6000>>, Zeros3)),
       FullJoint("mount", "fixed", "crate", "body", AxisZ, DefaultOrigin),
       FullJoint("cover", "fixed", "body", "lid", AxisZ, DefaultOrigin) >>)

\* only meshes the provider cannot load
DocGhost == Doc(TRUE,
    << LinkElem("hull", VisualElem(Mesh(File(TRUE, "hull.stl")), DefaultOrigin)),
       LinkElem("fin", VisualElem(Mesh(File(FALSE, "fin.stl")), DefaultOrigin)) >>,
    << FullJoint("rudder", "fixed", "hull", "fin", AxisZ, DefaultOrigin) >>)

\* links without visuals
DocBare == Doc(TRUE,
    << LinkElem("A", NoElem), LinkElem("B", NoElem) >>,
    << FullJoint("ab", "fixed", "A", "B", AxisZ, DefaultOrigin) >>)

\* materials: "steel" well formed, "rust" with rgba "abc", "thin" with two channels,
\* "red" with three channels and defined after every link; visuals that refer to a
\* material by name (one name twice, one name that is not defined), that define a color
\* inline under a registered name, and that define an inline color with rgba "abc"
DocPaint == DocWith(
    << MaterialElem("steel", Rgba(<<500, 500, 500, 1000>>), 0),
       MaterialElem("rust", Rgba(<<BadTok>>), 0),
       MaterialElem("thin", Rgba(<<100, 200>>), 1),
       MaterialElem("red", Rgba(<<1000, 0, 0>>), 7) >>,
    << LinkElem("a", VisualWith(Sphere(100), DefaultOrigin, MaterialRef("steel"))),
       LinkElem("b", VisualWith(Sphere(100), DefaultOrigin, MaterialRef("red"))),
       LinkElem("c", VisualWith(Sphere(100), DefaultOrigin, MaterialRef("nonexistent"))),
       LinkElem("d", VisualWith(Sphere(100), DefaultOrigin,
                                InlineMaterial("steel", Rgba(<<0, 1000, 0, 1000>>)))),
       LinkElem("e", VisualWith(Sphere(100), DefaultOrigin, MaterialRef("steel"))),
       LinkElem("f", VisualWith(Sphere(100), DefaultOrigin, MaterialRef("rust"))),
       LinkElem("g", VisualWith(Sphere(100), DefaultOrigin,
                                InlineMaterial("steel", Rgba(<<BadTok>>)))) >>,
    << FullJoint("ab", "fixed", "a", "b", AxisZ, DefaultOrigin),
       FullJoint("ac", "fixed", "a", "c", AxisZ, DefaultOrigin),
       FullJoint("ad", "fixed", "a", "d", AxisZ, DefaultOrigin),
       FullJoint("ae", "fixed", "a", "e", AxisZ, DefaultOrigin),
       FullJoint("af", "fixed", "a", "f", AxisZ, DefaultOrigin),
       FullJoint("ag", "fixed", "a", "g", AxisZ, DefaultOrigin) >>)

\* colors with numeric channels outside [0, 1]: "neon" registered, one inline; "five" has
\* five channels
DocGlare == DocWith(
    << MaterialElem("neon", Rgba(<<2000, 0 - 500, 0, 1000>>), 0),
       MaterialElem("five", Rgba(<<100, 200, 300, 400, 500>>), 0) >>,
    << LinkElem("p", VisualWith(Sphere(100), DefaultOrigin, MaterialRef("neon"))),
       LinkElem("q", VisualWith(Sphere(100), DefaultOrigin,
                                InlineMaterial("glow", Rgba(<<0, 0, 3000>>)))),
       LinkElem("r", VisualWith(Sphere(100), DefaultOrigin, MaterialRef("five"))) >>,
    << FullJoint("pq", "fixed", "p", "q", AxisZ, DefaultOrigin),
       FullJoint("pr", "fixed", "p", "r", AxisZ, DefaultOrigin) >>)

\* joints that carry the names of the arm's joints but are not actuated ("shoulder" is
\* fixed, "slide" of a type the viewer does not know), over links whose extents differ
\* in length
DocStale == Doc(TRUE,
    << LinkElem("plate", VisualElem(Box(<<1000, 1000>>), DefaultOrigin)),
       LinkElem("ball", VisualElem(Sphere(1000), DefaultOrigin)),
       LinkElem("tip", VisualElem(Sphere(100), DefaultOrigin)) >>,
    << FullJoint("shoulder", "fixed", "plate", "ball", AxisZ, Origin(<<0, 0, 1000>>, Zeros3)),
       FullJoint("slide", "floating", "ball", "tip", AxisX, Origin(<<1000, 0, 0>>, Zeros3)) >>)

\* another mesh the provider can load, beside one it cannot
DocWheel == Doc(TRUE,
    << LinkElem("axle", VisualElem(Mesh(File(TRUE, "wheel.stl")), DefaultOrigin)),
       LinkElem("rim", VisualElem(Mesh(File(FALSE, "rim.stl")), DefaultOrigin)) >>,
    << FullJoint("hub", "continuous", "axle", "rim", AxisX, DefaultOrigin) >>)

\* a joint whose child names no link of the document
DocDangling == Doc(TRUE,
    << LinkElem("A", VisualElem(Sphere(100), DefaultOrigin)) >>,
    << FullJoint("ag", "revolute", "A", "ghost", AxisZ, DefaultOrigin) >>)

\* every link is the child of some joint: A -> B, B -> A
DocLoop == Doc(TRUE,
    << LinkElem("A", VisualElem(Sphere(100), DefaultOrigin)), LinkElem("B", NoElem) >>,
    << FullJoint("ab", "revolute", "A", "B", AxisZ, DefaultOrigin),
       FullJoint("ba", "fixed", "B", "A", AxisZ, DefaultOrigin) >>)

---------------------------------------------------------------------------
(* URDFModel and URDFParser.  A dict is the sequence of its values in      *)
(* insertion order; storing under an existing name replaces in place.      *)

IndexOf(dict, name) ==
    IF \E i \in DOMAIN dict : dict[i].name = name
    THEN CHOOSE i \in DOMAIN dict : dict[i].name = name
    ELSE 0

DictPut(dict, item) ==
    IF IndexOf(dict, item.name) = 0 THEN Append(dict, item)
    ELSE [dict EXCEPT ![IndexOf(dict, item.name)] = item]

RECURSIVE DictFrom(_)
DictFrom(items) ==
    IF items = <<>> THEN <<>>
    ELSE DictPut(DictFrom(SubSeq(items, 1, Len(items) - 1)), items[Len(items)])

Names(dict) == {dict[i].name : i \in DOMAIN dict}

\* mutant: the color is stored as given
URDFMaterial_Raw(name, color) == [name |-> name, color |-> color]

\* URDFMaterial.__init__: three channels and alpha (1.0 when omitted), or the default
\* gray when fewer than three channels are given
URDFMaterial(name, color) ==
    [name |-> name,
     color |-> IF Len(color) >= 3
               THEN SubSeq(color, 1, 3) \o <<IF Len(color) > 3 THEN color[4] ELSE 1000>>
               ELSE DefaultGray]

\* the color URDFParser._load_materials hands to URDFMaterial for one <material>
StandaloneColor(e) ==
    IF /\ e.color # NoColor
       /\ e.color[1].rgba # <<>>
       /\ AllFloatOk(e.color[1].rgba[1])
       /\ Len(e.color[1].rgba[1]) >= 3
    THEN e.color[1].rgba[1]
    ELSE DefaultGray

\* URDFParser._load_materials: the registry model.materials
load_materials(elems) ==
    DictFrom([i \in DOMAIN elems |-> URDFMaterial(elems[i].name, StandaloneColor(elems[i]))])

\* the material object of a visual: `registered` tells the registry's own object from
\* one constructed for an inline definition
MaterialObject(material, registered) ==
    <<[name |-> material.name, color |-> material.color, registered |-> registered]>>

\* URDFParser._parse_visual, material part: inline color first, then the registry
resolve_material(m, materials) ==
    IF m = <<>> THEN <<>>
    ELSE IF m[1].color # NoColor
    THEN IF m[1].color[1].rgba # <<>> /\ AllFloatOk(m[1].color[1].rgba[1])
         THEN MaterialObject(URDFMaterial(m[1].name, m[1].color[1].rgba[1]), FALSE)
         ELSE <<>>
    ELSE IF IndexOf(materials, m[1].name) # 0
    THEN MaterialObject(materials[IndexOf(materials, m[1].name)], TRUE)
    ELSE <<>>

\* mutant: a visual whose material reference does not resolve is dropped
parse_visual_Strict(link_elem, materials) ==
    IF link_elem.visual = <<>> THEN <<>>
    ELSE IF /\ link_elem.visual[1].material # <<>>
            /\ resolve_material(link_elem.visual[1].material, materials) = <<>>
    THEN <<>>
    ELSE <<[geometry |-> link_elem.visual[1].geometry,
            origin |-> link_elem.visual[1].origin,
            material |-> resolve_material(link_elem.visual[1].material, materials)]>>

\* URDFParser._parse_visual: None when there is no visual
parse_visual(link_elem, materials) ==
    IF link_elem.visual = <<>> THEN <<>>
    ELSE <<[geometry |-> link_elem.visual[1].geometry,
            origin |-> link_elem.visual[1].origin,
            material |-> resolve_material(link_elem.visual[1].material, materials)]>>

\* URDFParser._parse_joint raises when name, <parent> or <child> is missing
JointParses(e) == e.name # <<>> /\ e.parent # <<>> /\ e.child # <<>>

\* URDFParser._parse_joint: type defaults to "revolute", axis to "0 0 1", origin to zero
parse_joint(e) ==
    [name |-> e.name[1],
     type |-> IF e.type = <<>> THEN "revolute" ELSE e.type[1],
     parent |-> e.parent[1],
     child |-> e.child[1],
     axis |-> IF e.axis = <<>> THEN AxisZ ELSE e.axis[1],
     origin |-> IF e.origin = <<>> THEN DefaultOrigin ELSE e.origin[1]]

\* URDFParser.load_model raises on unparsable markup and on a joint that does not parse
ParseOk(doc) == doc.wellFormed /\ \A i \in DOMAIN doc.joints : JointParses(doc.joints[i])

\* mutant: one pass in document order: a visual sees only the materials defined before
\* its link
parser_load_model_SinglePass(doc) ==
    [materials |-> load_materials(doc.materials),
     links |-> DictFrom([i \in DOMAIN doc.links |->
                   [name |-> doc.links[i].name,
                    visual |-> parse_visual(doc.links[i],
                                  load_materials(SelectSeq(doc.materials,
                                                           LAMBDA m : m.after < i)))]]),
     joints |-> DictFrom([i \in DOMAIN doc.joints |-> parse_joint(doc.joints[i])])]

\* URDFParser.load_model: the URDFModel of a document that parses
parser_load_model(doc) ==
    [materials |-> load_materials(doc.materials),
     links |-> DictFrom([i \in DOMAIN doc.links |->
                   [name |-> doc.links[i].name,
                    visual |-> parse_visual(doc.links[i], load_materials(doc.materials))]]),
     joints |-> DictFrom([i \in DOMAIN doc.joints |-> parse_joint(doc.joints[i])])]

\* URDFModel.get_joints
get_joints(model) == model.joints

Children(model) == {model.joints[i].child : i \in DOMAIN model.joints}

\* mutant: the last link that is no joint's child
get_root_Last(model) ==
    IF \E i \in DOMAIN model.links : model.links[i].name \notin Children(model)
    THEN <<model.links[CHOOSE i \in DOMAIN model.links :
                /\ model.links[i].name \notin Children(model)
                /\ \A k \in (i + 1)..Len(model.links) :
                       model.links[k].name \in Children(model)].name>>
    ELSE <<>>

\* URDFModel.get_root: first link, in insertion order, that is no joint's child; <<>> = None
get_root(model) ==
    IF \E i \in DOMAIN model.links : model.links[i].name \notin Children(model)
    THEN <<model.links[CHOOSE i \in DOMAIN model.links :
                /\ model.links[i].name \notin Children(model)
                /\ \A k \in 1..(i - 1) : model.links[k].name \in Children(model)].name>>
    ELSE <<>>

---------------------------------------------------------------------------
(* Mesh provider and MeshManager.                                          *)

\* trimesh is importable
HAS_TRIMESH == TRUE

\* files os.path.exists finds and trimesh loads as a Trimesh
FilesOnDisk == {"body.stl", "wheel.stl"}

\* mesh.bounds of a loaded file: (min corner, max corner)
MeshBounds(path) == << <<0, 0, 0>>, <<2000, 2000, 4000>> >>

\* MeshManager.resolve_filename on flat paths: the "package://" prefix is stripped
resolve_filename(filename) == filename.path

IsMeshVisual(link) ==
    /\ link.visual # <<>>
    /\ link.visual[1].geometry.type = "mesh"
    /\ link.visual[1].geometry.filename.path # ""

\* mutant: the load keeps what is cached and preloads on top of it
PreloadAll_Kept(model) ==
    mesh_cache \cup
    ({resolve_filename(model.links[i].visual[1].geometry.filename) :
         i \in {k \in DOMAIN model.links : IsMeshVisual(model.links[k])}}
     \cap FilesOnDisk)

\* MeshManager.preload_mesh_for_bounds over the model's mesh visuals, on an empty cache
PreloadAll(model) ==
    IF ~HAS_TRIMESH THEN {}
    ELSE {resolve_filename(model.links[i].visual[1].geometry.filename) :
             i \in {k \in DOMAIN model.links : IsMeshVisual(model.links[k])}}
         \cap FilesOnDisk

\* mutant: every mesh is reported as loaded
MeshCached_Always(cache, filename) == TRUE
\* MeshManager.get_mesh: whether the cache holds the file
MeshCached(cache, filename) == resolve_filename(filename) \in cache

---------------------------------------------------------------------------
(* SceneManager.                                                           *)

VNeg(v) == [i \in DOMAIN v |-> FNeg(v[i])]
\* mutant: a box reaches its full size to either side
VHalf_Full(v) == v
VHalf(v) == [i \in DOMAIN v |-> FHalf(v[i])]

\* the (min, max) extent a visual appends to mins/maxs; <<>> when it appends nothing
Extent(geom, cache) ==
    IF geom.type = "mesh" /\ geom.filename.path # ""
    THEN IF MeshCached(cache, geom.filename)
         THEN <<MeshBounds(resolve_filename(geom.filename))>> ELSE <<>>
    ELSE IF geom.type = "box" /\ geom.size # <<>>
    THEN IF AllFloatOk(geom.size)
         THEN << <<VNeg(VHalf(geom.size)), VHalf(geom.size)>> >> ELSE <<>>
    ELSE IF geom.type = "sphere" /\ geom.size # <<>>
    THEN IF FloatOk(geom.size[1])
         THEN LET r == geom.size[1]
              IN << << <<FNeg(r), FNeg(r), FNeg(r)>>, <<r, r, r>> >> >>
         ELSE <<>>
    ELSE IF geom.type = "cylinder" /\ Len(geom.size) >= 2
    THEN IF FloatOk(geom.size[1]) /\ FloatOk(geom.size[2])
         THEN LET r == geom.size[1]
                  l == geom.size[2]
              IN << << <<FNeg(r), FNeg(r), FNeg(FHalf(l))>>, <<r, r, FHalf(l)>> >> >>
         ELSE <<>>
    ELSE <<>>

RECURSIVE Extents(_, _)
\* mutant: the extents follow the pose: a link's extent is moved along X by the sum of
\* the joint parameters
Extents_Posed(links, cache) ==
    IF links = <<>> THEN <<>>
    ELSE (IF Head(links).visual = <<>> \/ Extent(Head(links).visual[1].geometry, cache) = <<>>
          THEN <<>>
          ELSE LET e == Extent(Head(links).visual[1].geometry, cache)[1]
                   RECURSIVE Sum(_)
                   Sum(S) == IF S = {} THEN 0
                             ELSE LET n == CHOOSE n \in S : TRUE
                                  IN joint_angles[n] + Sum(S \ {n})
                   shift == Sum(DOMAIN joint_angles)
               IN << << [e[1] EXCEPT ![1] = @ + shift], [e[2] EXCEPT ![1] = @ + shift] >> >>)
         \o Extents(Tail(links), cache)

Extents(links, cache) ==
    IF links = <<>> THEN <<>>
    ELSE (IF Head(links).visual = <<>> THEN <<>>
          ELSE Extent(Head(links).visual[1].geometry, cache))
         \o Extents(Tail(links), cache)

\* np.min / np.max over axis 0 raise unless every row has the same length
SameShape(ext) == \A i, j \in DOMAIN ext : Len(ext[i][1]) = Len(ext[j][1])

RECURSIVE ColMin(_, _)
ColMin(ext, k) ==
    IF Len(ext) = 1 THEN ext[1][1][k]
    ELSE FMin(ext[1][1][k], ColMin(Tail(ext), k))

RECURSIVE ColMax(_, _)
ColMax(ext, k) ==
    IF Len(ext) = 1 THEN ext[1][2][k]
    ELSE FMax(ext[1][2][k], ColMax(Tail(ext), k))

\* the scene radius the bounds give: |max - min| / 2
SceneRadius(mins, maxs) == FHalf(Norm([k \in DOMAIN mins |-> FSub(maxs[k], mins[k])]))

\* SceneManager.calculate_scene_bounds: [raised, center, scene_radius]
calculate_scene_bounds(model, cache) ==
    LET ext == Extents(model.links, cache)
    IN IF ext = <<>>
       THEN [raised |-> FALSE, center |-> Zeros3, scene_radius |-> 1000]
       ELSE IF ~SameShape(ext)
       THEN [raised |-> TRUE, center |-> Zeros3, scene_radius |-> 1000]
       ELSE LET mins == [k \in DOMAIN ext[1][1] |-> ColMin(ext, k)]
                maxs == [k \in DOMAIN ext[1][1] |-> ColMax(ext, k)]
            IN [raised |-> FALSE,
                center |-> [k \in DOMAIN mins |-> FHalf(FAdd(mins[k], maxs[k]))],
                scene_radius |-> SceneRadius(mins, maxs)]

---------------------------------------------------------------------------
(* Camera.                                                                 *)

ZoomMin == 100
ZoomMax == 5000000
PitchLimit == 178
InitDistance == 5000
InitYaw == 90
InitPitch == 60
FitYaw == 90
FitPitch == 40
InitRadius == 1000

\* Camera.__init__ and Camera.reset
CameraDefault ==
    [distance |-> InitDistance, yaw |-> InitYaw, pitch |-> InitPitch, center |-> Zeros3]

\* the distance auto-fit sets: scene_radius * 2.0, clipped
FitDistance(radius) == Clip(FDouble(radius), ZoomMin, ZoomMax)

\* mutant: the fit scales the camera's own distance
auto_fit_camera_Relative(cam, sc) ==
    [cam EXCEPT !.distance = FitDistance(cam.distance), !.yaw = FitYaw, !.pitch = FitPitch]

\* SceneManager.auto_fit_camera
auto_fit_camera(cam, sc) ==
    [cam EXCEPT !.distance = FitDistance(sc.scene_radius), !.yaw = FitYaw, !.pitch = FitPitch]

\* 0.9 ** ticks applied to a distance, one factor of 0.9 at a time; beyond the zoom
\* range the product only moves further out, so the clip that follows decides
RECURSIVE Scale09(_, _)
Scale09(d, ticks) ==
    IF ticks = 0 \/ d = 0 \/ d > ZoomMax THEN d
    ELSE IF ticks > 0 THEN Scale09((d * 9) \div 10, ticks - 1)
    ELSE Scale09((d * 10) \div 9, ticks + 1)

\* URDFGLWidget.wheelEvent: distance *= 0.9 ** delta, then clip
ZoomDistance(d, ticks) ==
    Clip(IF IsNaN(d) THEN NaN ELSE Scale09(d, ticks), ZoomMin, ZoomMax)

\* mutant: the pitch is not clipped
OrbitPitch_Unclipped(pitch, dy) == pitch + dy

\* URDFGLWidget.mouseMoveEvent, left button: the pitch after the drag
OrbitPitch(pitch, dy) == Clip(pitch + dy, 0 - PitchLimit, PitchLimit)

\* math.cos / math.sin of math.radians(yaw), in thousandths, yaw in half degrees
YawCos(yaw) == CASE yaw % 720 = 0 -> 1000
                 [] yaw % 720 = 90 -> 707
                 [] yaw % 720 = 180 -> 0
                 [] yaw % 720 = 270 -> 0 - 707
                 [] yaw % 720 = 360 -> 0 - 1000
                 [] yaw % 720 = 450 -> 0 - 707
                 [] yaw % 720 = 540 -> 0
                 [] yaw % 720 = 630 -> 707
YawSin(yaw) == YawCos(yaw - 180)

\* (projection in thousandths of a pixel) * 0.01 * distance
PanScale(proj, distance) ==
    IF IsNaN(distance) THEN NaN ELSE ((proj \div 100) * (distance \div 100)) \div 10

\* mutant: the pan follows the tilted view: its amount shrinks with the pitch and the
\* center also moves along Z
PanCenter_Tilted(cam, dx, dy) ==
    LET delta_world_x == PanScale(dx * YawCos(cam.yaw) - dy * YawSin(cam.yaw), cam.distance)
        delta_world_y == PanScale(dx * YawSin(cam.yaw) + dy * YawCos(cam.yaw), cam.distance)
    IN <<FSub(cam.center[1], delta_world_x),
         FSub(cam.center[2], (delta_world_y * (180 - Abs(cam.pitch))) \div 180),
         FSub(cam.center[3], (delta_world_y * cam.pitch) \div 180)>>

\* URDFGLWidget.mouseMoveEvent, right button: the center after the drag
PanCenter(cam, dx, dy) ==
    LET delta_world_x == PanScale(dx * YawCos(cam.yaw) - dy * YawSin(cam.yaw), cam.distance)
        delta_world_y == PanScale(dx * YawSin(cam.yaw) + dy * YawCos(cam.yaw), cam.distance)
    IN <<FSub(cam.center[1], delta_world_x), FSub(cam.center[2], delta_world_y), cam.center[3]>>

---------------------------------------------------------------------------
(* Kinematics.                                                             *)

\* math.radians of a slider value (whole degrees), in thousandths of a radian
Radians(value) == (value * 3142) \div 180

\* joint_angles.get(name, 0.0)
AngleOf(angles, name) == IF name \in DOMAIN angles THEN angles[name] ELSE 0

\* axis / |axis| for an axis along one coordinate axis; +Z when |axis| is (near) zero
UnitAxis(axis) ==
    IF Norm(axis) = 0 THEN <<0, 0, 1>> ELSE [i \in 1..3 |-> axis[i] \div Norm(axis)]

\* the axis-angle matrix R of _compute_joint_transform
AxisAngle(axis, angle) ==
    LET c == Cos(angle)
        s == Sin(angle)
        u == UnitAxis(axis)
        ux == u[1]  uy == u[2]  uz == u[3]
    IN [R |-> << <<c + ux*ux*(1-c), ux*uy*(1-c) - uz*s, ux*uz*(1-c) + uy*s>>,
                 <<uy*ux*(1-c) + uz*s, c + uy*uy*(1-c), uy*uz*(1-c) - ux*s>>,
                 <<uz*ux*(1-c) - uy*s, uz*uy*(1-c) + ux*s, c + uz*uz*(1-c)>> >>,
        t |-> Zeros3]

\* mutant: a joint of any type turns about its axis
Actuation_AnyTypeTurns(joint, angle) ==
    LET axis == IF joint.axis # <<>> THEN parse_vector3(joint.axis) ELSE <<0, 0, 1>>
    IN IF joint.type = "prismatic"
       THEN [R |-> Eye3, t |-> [i \in 1..3 |-> axis[i] * angle]]
       ELSE AxisAngle(axis, angle)

\* the actuation of a joint at a parameter value: rotation, translation or identity
Actuation(joint, angle) ==
    LET axis == IF joint.axis # <<>> THEN parse_vector3(joint.axis) ELSE <<0, 0, 1>>
    IN IF joint.type \in {"revolute", "continuous"} THEN AxisAngle(axis, angle)
       ELSE IF joint.type = "prismatic"
       THEN [R |-> Eye3, t |-> [i \in 1..3 |-> axis[i] * angle]]
       ELSE Eye4

\* parent_transform @ create_transform(j_xyz, j_rpy), or parent_transform if that raised
WithJointOrigin(joint, parent_transform) ==
    IF OriginTransform(joint.origin) = <<>> THEN parent_transform
    ELSE MatMul(parent_transform, OriginTransform(joint.origin)[1])

\* mutant: the actuation is applied before the joint's static origin
compute_joint_transform_Reversed(joint, parent_transform, angles) ==
    WithJointOrigin(joint, MatMul(parent_transform,
                                  Actuation(joint, AngleOf(angles, joint.name))))

\* URDFGLWidget._compute_joint_transform
compute_joint_transform(joint, parent_transform, angles) ==
    MatMul(WithJointOrigin(joint, parent_transform),
           Actuation(joint, AngleOf(angles, joint.name)))

LinkOf(model, name) ==
    IF IndexOf(model.links, name) = 0 THEN <<>> ELSE <<model.links[IndexOf(model.links, name)]>>

HasVisual(model, name) == LinkOf(model, name) # <<>> /\ LinkOf(model, name)[1].visual # <<>>

\* the current_transform _draw_link carries on to the link's child joints
CurrentTransform(model, name, parent_transform) ==
    IF HasVisual(model, name) /\ OriginTransform(LinkOf(model, name)[1].visual[1].origin) # <<>>
    THEN MatMul(parent_transform, OriginTransform(LinkOf(model, name)[1].visual[1].origin)[1])
    ELSE parent_transform

---------------------------------------------------------------------------
(* Inputs and bounds.                                                      *)

Docs == {DocArm, DocMesh, DocCycle, DocDiamond, DocRagged, DocNaN, DocHuge,
         DocPoint, DocEmpty, DocUnparsable, DocNoParent, DocLate, DocLoop, DocDangling,
         DocNoType, DocNoName, DocNoChild, DocBareJoint, DocBox211, DocMix, DocGhost,
         DocBare, DocPaint, DocGlare, DocStale, DocWheel}

\* documents of the camera specification
CameraDocs == {DocArm, DocMesh, DocRagged, DocNaN, DocHuge, DocPoint, DocUnparsable}

\* documents of the rendering specification
RenderDocs == {DocArm, DocMesh, DocCycle, DocDiamond, DocRagged, DocEmpty, DocNoParent,
               DocStale}

\* documents of the parsing specification
ParseDocs == {DocArm, DocDiamond, DocEmpty, DocUnparsable, DocNoParent, DocLate, DocLoop,
              DocDangling, DocNoType, DocNoName, DocNoChild, DocBareJoint, DocPaint,
              DocGlare}

\* documents of the bounds specification
BoundsDocs == {DocArm, DocMesh, DocBox211, DocMix, DocGhost, DocBare, DocEmpty, DocRagged}

\* documents of the cache specification
CacheDocs == {DocMesh, DocWheel, DocBox211, DocRagged, DocEmpty, DocUnparsable}

\* slider positions (whole degrees) the user moves a slider to
SliderValues == {0 - 90, 0, 90, 180}

\* pointer positions (x, y) in pixels
MousePositions == {<<0, 0>>, <<180, 400>>}

\* event.buttons() of a move event
ButtonSets == {{}, {"left"}, {"right"}, {"left", "right"}, {"middle"}}

\* angleDelta().y() / 120 of a wheel event
WheelTicks == {0 - 66, 0 - 22, 22, 66}

\* camera gestures explored per behaviour
MaxGestures == 2

\* depth at which the interpreter raises RecursionError
RecursionLimit == 6

---------------------------------------------------------------------------
(* The session.                                                            *)

Init ==
    /\ win_model = <<>>
    /\ urdf_model = <<>>
    /\ joint_angles = <<>>
    /\ joint_sliders = <<>>
    /\ camera = CameraDefault
    /\ scene = [center |-> Zeros3, scene_radius |-> InitRadius]
    /\ mesh_cache = {}
    /\ display_list_cache = {}
    /\ last_mouse_pos = <<>>
    /\ initialized = FALSE
    /\ stack = <<>>
    /\ visits = <<>>
    /\ frame = "idle"
    /\ loadResult = "none"
    /\ lastEvent = "none"
    /\ prevEvent = "none"
    /\ gestures = 0

\* URDFParser.load_model on each document that parses
Parsed == [doc \in {d \in Docs : ParseOk(d)} |-> parser_load_model(doc)]

\* no render frame is in progress (events are handled one at a time)
Idle == frame # "drawing"

frameVars == <<stack, visits, frame>>

\* bookkeeping of the event sequence
Handled(event) == lastEvent' = event /\ prevEvent' = lastEvent

\* mutant: the values of joints that keep their name survive the load
InitialJointAngles_Kept(model) ==
    [n \in {model.joints[i].name : i \in {k \in DOMAIN model.joints : model.joints[k].type # "fixed"}}
       |-> AngleOf(joint_angles, n)]

\* joint_angles as URDFGLWidget.load_model initialises it
InitialJointAngles(model) ==
    [n \in {model.joints[i].name : i \in {k \in DOMAIN model.joints : model.joints[k].type # "fixed"}}
       |-> 0]

Controllable(model) ==
    {model.joints[i].name :
        i \in {k \in DOMAIN model.joints :
                 model.joints[k].type \in {"revolute", "continuous", "prismatic"}}}

\* URDFVisualizerWindow.populate_joint_sliders: one slider at 0 per controllable joint
populate_joint_sliders(model) == [n \in Controllable(model) |-> 0]

\* URDFVisualizerWindow.load_urdf_dialog with a file chosen, URDFGLWidget.load_model included
Load(doc) ==
    /\ Idle
    /\ Handled("load")
    /\ UNCHANGED <<last_mouse_pos, initialized, frameVars, gestures>>
    /\ IF ~ParseOk(doc)
       THEN /\ loadResult' = "error"
            /\ UNCHANGED <<win_model, urdf_model, joint_angles, joint_sliders, camera,
                           scene, mesh_cache, display_list_cache>>
       ELSE IF Parsed[doc].links = <<>>
       THEN /\ loadResult' = "no_links"
            /\ UNCHANGED <<win_model, urdf_model, joint_angles, joint_sliders, camera,
                           scene, mesh_cache, display_list_cache>>
       ELSE LET model == Parsed[doc]
                cache == PreloadAll(model)
                bounds == calculate_scene_bounds(model, cache)
            IN /\ win_model' = <<model>>
               /\ display_list_cache' = {}
               /\ mesh_cache' = cache
               /\ urdf_model' = <<model>>
               /\ joint_angles' = InitialJointAngles(model)
               /\ IF bounds.raised
                  THEN /\ loadResult' = "error"
                       /\ UNCHANGED <<scene, camera, joint_sliders>>
                  ELSE /\ scene' = [center |-> bounds.center,
                                    scene_radius |-> bounds.scene_radius]
                       /\ camera' = auto_fit_camera(camera, scene')
                       /\ joint_sliders' = populate_joint_sliders(model)
                       /\ loadResult' = "ok"

\* a slider's valueChanged signal: URDFVisualizerWindow.on_slider_changed
SliderChanged(name, value) ==
    /\ Idle
    /\ name \in DOMAIN joint_sliders
    /\ joint_sliders[name] # value
    /\ joint_sliders' = [joint_sliders EXCEPT ![name] = value]
    /\ joint_angles' =
         IF urdf_model # <<>>
         THEN [n \in DOMAIN joint_angles \cup {name} |->
                 IF n = name THEN Radians(value) ELSE joint_angles[n]]
         ELSE joint_angles
    /\ Handled("slider")
    /\ UNCHANGED <<win_model, urdf_model, camera, scene, mesh_cache, display_list_cache,
                   last_mouse_pos, initialized, frameVars, loadResult, gestures>>

\* URDFGLWidget.mousePressEvent
MousePress(pos) ==
    /\ Idle
    /\ last_mouse_pos' = <<pos>>
    /\ Handled("mouse")
    /\ UNCHANGED <<win_model, urdf_model, joint_angles, joint_sliders, camera, scene,
                   mesh_cache, display_list_cache, initialized, frameVars, loadResult,
                   gestures>>

\* URDFGLWidget.mouseReleaseEvent
MouseRelease ==
    /\ Idle
    /\ last_mouse_pos' = <<>>
    /\ Handled("mouse")
    /\ UNCHANGED <<win_model, urdf_model, joint_angles, joint_sliders, camera, scene,
                   mesh_cache, display_list_cache, initialized, frameVars, loadResult,
                   gestures>>

\* mutant: the secondary button takes precedence when both are held
MouseMove_SecondaryFirst(pos, buttons) ==
    /\ Idle
    /\ Handled("mouse")
    /\ UNCHANGED <<win_model, urdf_model, joint_angles, joint_sliders, scene, mesh_cache,
                   display_list_cache, initialized, frameVars, loadResult>>
    /\ IF last_mouse_pos = <<>>
       THEN UNCHANGED <<camera, last_mouse_pos, gestures>>
       ELSE LET dx == pos[1] - last_mouse_pos[1][1]
                dy == pos[2] - last_mouse_pos[1][2]
            IN /\ last_mouse_pos' = <<pos>>
               /\ IF "right" \in buttons
                  THEN /\ gestures < MaxGestures
                       /\ gestures' = gestures + 1
                       /\ camera' = [camera EXCEPT !.center = PanCenter(camera, dx, dy)]
                  ELSE IF "left" \in buttons
                  THEN /\ gestures < MaxGestures
                       /\ gestures' = gestures + 1
                       /\ camera' = [camera EXCEPT !.yaw = camera.yaw + dx,
                                                   !.pitch = OrbitPitch(camera.pitch, dy)]
                  ELSE UNCHANGED <<camera, gestures>>

\* URDFGLWidget.mouseMoveEvent
MouseMove(pos, buttons) ==
    /\ Idle
    /\ Handled("mouse")
    /\ UNCHANGED <<win_model, urdf_model, joint_angles, joint_sliders, scene, mesh_cache,
                   display_list_cache, initialized, frameVars, loadResult>>
    /\ IF last_mouse_pos = <<>>
       THEN UNCHANGED <<camera, last_mouse_pos, gestures>>
       ELSE LET dx == pos[1] - last_mouse_pos[1][1]
                dy == pos[2] - last_mouse_pos[1][2]
            IN /\ last_mouse_pos' = <<pos>>
               /\ IF "left" \in buttons
                  THEN /\ gestures < MaxGestures
                       /\ gestures' = gestures + 1
                       /\ camera' = [camera EXCEPT !.yaw = camera.yaw + dx,
                                                   !.pitch = OrbitPitch(camera.pitch, dy)]
                  ELSE IF "right" \in buttons
                  THEN /\ gestures < MaxGestures
                       /\ gestures' = gestures + 1
                       /\ camera' = [camera EXCEPT !.center = PanCenter(camera, dx, dy)]
                  ELSE UNCHANGED <<camera, gestures>>

\* URDFGLWidget.wheelEvent
Wheel(ticks) ==
    /\ Idle
    /\ gestures < MaxGestures
    /\ gestures' = gestures + 1
    /\ camera' = [camera EXCEPT !.distance = ZoomDistance(camera.distance, ticks)]
    /\ Handled("wheel")
    /\ UNCHANGED <<win_model, urdf_model, joint_angles, joint_sliders, scene, mesh_cache,
                   display_list_cache, last_mouse_pos, initialized, frameVars, loadResult>>

\* mutant: the reset only fits the view, on the camera as it is
ResetView_FitOnly ==
    /\ Idle
    /\ camera' = auto_fit_camera(camera, scene)
    /\ Handled("reset")
    /\ UNCHANGED <<win_model, urdf_model, joint_angles, joint_sliders, scene, mesh_cache,
                   display_list_cache, last_mouse_pos, initialized, frameVars, loadResult,
                   gestures>>

\* URDFVisualizerWindow.reset_view -> URDFGLWidget.reset_view
ResetView ==
    /\ Idle
    /\ camera' = auto_fit_camera(CameraDefault, scene)
    /\ Handled("reset")
    /\ UNCHANGED <<win_model, urdf_model, joint_angles, joint_sliders, scene, mesh_cache,
                   display_list_cache, last_mouse_pos, initialized, frameVars, loadResult,
                   gestures>>

\* URDFVisualizerWindow.auto_fit_view -> URDFGLWidget.auto_fit_view
AutoFitView ==
    /\ Idle
    /\ Handled("autofit")
    /\ UNCHANGED <<win_model, urdf_model, joint_angles, joint_sliders, mesh_cache,
                   display_list_cache, last_mouse_pos, initialized, frameVars, loadResult,
                   gestures>>
    /\ IF win_model = <<>> \/ urdf_model = <<>>
       THEN UNCHANGED <<scene, camera>>
       ELSE LET bounds == calculate_scene_bounds(urdf_model[1], mesh_cache)
            IN IF bounds.raised
               THEN UNCHANGED <<scene, camera>>
               ELSE /\ scene' = [center |-> bounds.center,
                                 scene_radius |-> bounds.scene_radius]
                    /\ camera' = auto_fit_camera(camera, scene')

\* URDFGLWidget.initializeGL
InitializeGL ==
    /\ Idle
    /\ ~initialized
    /\ initialized' = TRUE
    /\ Handled("initgl")
    /\ UNCHANGED <<win_model, urdf_model, joint_angles, joint_sliders, camera, scene,
                   mesh_cache, display_list_cache, last_mouse_pos, frameVars, loadResult,
                   gestures>>

---------------------------------------------------------------------------
(* A render frame: paintGL and the recursion of _draw_link, one invocation *)
(* or one loop iteration per step.                                         *)

\* GeometryRenderer.render_geometry: the glColor4f issued for the link's visual (<<>>
\* when the link draws nothing)
RenderColor(model, link_name) ==
    IF ~HasVisual(model, link_name) THEN <<>>
    ELSE IF LinkOf(model, link_name)[1].visual[1].material # <<>>
    THEN <<LinkOf(model, link_name)[1].visual[1].material[1].color>>
    ELSE <<DefaultGray>>

\* what entering _draw_link(link_name, parent_transform) records: the transform it got,
\* the one it carries to the children, and whether it issued a draw
Visit(model, link_name, parent_transform, via, parent) ==
    [link |-> link_name,
     incoming |-> parent_transform,
     current |-> CurrentTransform(model, link_name, parent_transform),
     drawn |-> HasVisual(model, link_name),
     color |-> RenderColor(model, link_name),
     via |-> via,
     parent |-> parent]

\* the invocation's stack entry: its link, current_transform, position in the joint loop
Invocation(model, link_name, parent_transform, visit) ==
    [link |-> link_name,
     current |-> CurrentTransform(model, link_name, parent_transform),
     next |-> 1,
     visit |-> visit]

\* display lists render_geometry creates when the link's visual is a cached mesh
DrawnLists(model, link_name, cache) ==
    IF /\ HasVisual(model, link_name)
       /\ IsMeshVisual(LinkOf(model, link_name)[1])
       /\ HAS_TRIMESH
       /\ MeshCached(cache, LinkOf(model, link_name)[1].visual[1].geometry.filename)
    THEN {resolve_filename(LinkOf(model, link_name)[1].visual[1].geometry.filename)}
    ELSE {}

\* URDFGLWidget.paintGL up to and including the entry of _draw_link(root, eye(4))
PaintGL ==
    /\ Idle
    /\ Handled("paint")
    /\ UNCHANGED <<win_model, urdf_model, joint_angles, joint_sliders, camera, scene,
                   mesh_cache, last_mouse_pos, initialized, loadResult, gestures>>
    /\ IF ~initialized
       THEN UNCHANGED <<frameVars, display_list_cache>>
       ELSE IF urdf_model = <<>> \/ get_root(urdf_model[1]) = <<>>
       THEN /\ stack' = <<>>
            /\ visits' = <<>>
            /\ frame' = "done"
            /\ UNCHANGED display_list_cache
       ELSE LET model == urdf_model[1]
                root == get_root(model)[1]
            IN /\ stack' = <<Invocation(model, root, Eye4, 1)>>
               /\ visits' = <<Visit(model, root, Eye4, "", 0)>>
               /\ frame' = "drawing"
               /\ display_list_cache' =
                    display_list_cache \cup DrawnLists(model, root, mesh_cache)

\* joints at or after position `from` of the loop whose parent is the link
JointsFrom(model, link_name, from) ==
    {i \in DOMAIN model.joints : i >= from /\ model.joints[i].parent = link_name}

Min(S) == CHOOSE x \in S : \A y \in S : x <= y

\* the "for joint in get_joints()" loop of the innermost _draw_link: up to the next
\* recursive call, or to the end of the loop and the return
DrawStep ==
    /\ frame = "drawing"
    /\ UNCHANGED <<win_model, urdf_model, joint_angles, joint_sliders, camera, scene,
                   mesh_cache, last_mouse_pos, initialized, loadResult, lastEvent, prevEvent, gestures>>
    /\ LET model == urdf_model[1]
           top == stack[Len(stack)]
           todo == JointsFrom(model, top.link, top.next)
       IN IF todo = {}
          THEN /\ stack' = SubSeq(stack, 1, Len(stack) - 1)
               /\ frame' = IF Len(stack) = 1 THEN "done" ELSE "drawing"
               /\ UNCHANGED <<visits, display_list_cache>>
          ELSE LET i == Min(todo)
                   joint == model.joints[i]
                   child_transform == compute_joint_transform(joint, top.current, joint_angles)
               IN IF Len(stack) >= RecursionLimit
                  THEN /\ stack' = <<>>
                       /\ frame' = "RecursionError"
                       /\ UNCHANGED <<visits, display_list_cache>>
                  ELSE /\ stack' = Append([stack EXCEPT ![Len(stack)].next = i + 1],
                                          Invocation(model, joint.child, child_transform,
                                                     Len(visits) + 1))
                       /\ visits' = Append(visits, Visit(model, joint.child, child_transform,
                                                         joint.name, top.visit))
                       /\ frame' = "drawing"
                       /\ display_list_cache' =
                            display_list_cache \cup DrawnLists(model, joint.child, mesh_cache)

---------------------------------------------------------------------------
(* Specifications.                                                         *)

LoadAny == \E doc \in Docs : Load(doc)
LoadCameraDoc == \E doc \in CameraDocs : Load(doc)
LoadRenderDoc == \E doc \in RenderDocs : Load(doc)
MoveSlider == \E name \in DOMAIN joint_sliders, value \in SliderValues : SliderChanged(name, value)
Press == \E pos \in MousePositions : MousePress(pos)
Move == \E pos \in MousePositions, buttons \in ButtonSets : MouseMove(pos, buttons)
Scroll == \E ticks \in WheelTicks : Wheel(ticks)

Next ==
    \/ LoadAny
    \/ MoveSlider
    \/ Press
    \/ Move
    \/ MouseRelease
    \/ Scroll
    \/ ResetView
    \/ AutoFitView
    \/ InitializeGL
    \/ PaintGL
    \/ DrawStep

Spec == Init /\ [][Next]_vars

\* the camera and its events, with loads
NextCamera ==
    \/ LoadCameraDoc
    \/ Press
    \/ Move
    \/ MouseRelease
    \/ Scroll
    \/ ResetView
    \/ AutoFitView

SpecCamera == Init /\ [][NextCamera]_vars

\* loads, slider moves and render frames
NextRender ==
    \/ LoadRenderDoc
    \/ MoveSlider
    \/ InitializeGL
    \/ PaintGL
    \/ DrawStep

SpecRender == Init /\ [][NextRender]_vars

LoadParseDoc == \E doc \in ParseDocs : Load(doc)

\* loads and render frames of what was parsed
NextParse ==
    \/ LoadParseDoc
    \/ InitializeGL
    \/ PaintGL
    \/ DrawStep

SpecParse == Init /\ [][NextParse]_vars

LoadBoundsDoc == \E doc \in BoundsDocs : Load(doc)

\* loads, slider moves and auto-fit requests
NextBounds ==
    \/ LoadBoundsDoc
    \/ MoveSlider
    \/ AutoFitView

SpecBounds == Init /\ [][NextBounds]_vars

LoadCacheDoc == \E doc \in CacheDocs : Load(doc)

\* loads of models with and without meshes, slider moves, view requests and render frames
NextCache ==
    \/ LoadCacheDoc
    \/ MoveSlider
    \/ ResetView
    \/ AutoFitView
    \/ InitializeGL
    \/ PaintGL
    \/ DrawStep

SpecCache == Init /\ [][NextCache]_vars

---------------------------------------------------------------------------
(* Properties.                                                             *)

\* the state a load must leave alone when it reports an error
LoadOwned == <<win_model, urdf_model, joint_angles, camera, scene, mesh_cache>>

\* C1: whenever a load attempt ends in a load error reported to the caller, the current
\* model, the joint-parameter mapping, the camera, the scene bounds and the mesh cache
\* are what they were before the attempt.
C1_LoadAllOrNothing ==
    [][(lastEvent' = "load" /\ loadResult' = "error") => UNCHANGED LoadOwned]_vars

LoadSucceeded == lastEvent = "load" /\ loadResult = "ok"

\* C2: right after a successful load every joint of the new model has parameter 0:
\* every entry of the mapping is 0 and every key names a joint of the new model.
C2_ParametersZeroAfterLoad ==
    LoadSucceeded =>
        /\ \A i \in DOMAIN urdf_model[1].joints :
               AngleOf(joint_angles, urdf_model[1].joints[i].name) = 0
        /\ \A n \in DOMAIN joint_angles :
               joint_angles[n] = 0 /\ n \in Names(urdf_model[1].joints)

\* a successful load of a model with controllable joints that follows a slider move
C2_Witness ==
    /\ LoadSucceeded
    /\ prevEvent = "slider"
    /\ DOMAIN joint_angles # {}

\* C3: in every reachable state the orbit distance lies in [0.1, 5000.0].
C3_DistanceInRange ==
    ~IsNaN(camera.distance) /\ camera.distance >= ZoomMin /\ camera.distance <= ZoomMax

\* C4: in every reachable state the camera pitch lies between -89 and +89 degrees.
C4_PitchInRange ==
    camera.pitch >= 0 - PitchLimit /\ camera.pitch <= PitchLimit

\* the last of the gestures was an orbit drag that the clamp stopped at the lower pole
C4_Witness ==
    /\ lastEvent = "mouse"
    /\ camera.pitch = 0 - PitchLimit
    /\ gestures = MaxGestures

\* an auto-fit has just been carried out: by a successful load, or by an explicit
\* request on a loaded model whose bounds could be computed
AutoFitted ==
    \/ LoadSucceeded
    \/ /\ lastEvent = "autofit"
       /\ win_model # <<>>
       /\ urdf_model # <<>>
       /\ ~calculate_scene_bounds(urdf_model[1], mesh_cache).raised

\* C5: after auto-fit the orbit center is the computed scene center, yaw and pitch are
\* the fixed defaults and the distance is the scene radius times the multiplier, clamped.
C5_AutoFitResetsCamera ==
    AutoFitted =>
        /\ camera.center = scene.center
        /\ camera.yaw = FitYaw
        /\ camera.pitch = FitPitch
        /\ camera.distance = Clip(FDouble(scene.scene_radius), ZoomMin, ZoomMax)

\* C6: an auto-fit that directly follows an auto-fit leaves the whole camera state as
\* the first one left it.
C6_AutoFitIdempotent ==
    [][(lastEvent = "autofit" /\ lastEvent' = "autofit") => camera' = camera]_vars

\* two auto-fits in a row on a loaded model, after the view had been panned
C6_Witness ==
    /\ prevEvent = "autofit"
    /\ lastEvent = "autofit"
    /\ urdf_model # <<>>
    /\ camera.center # Zeros3
    /\ camera.yaw = FitYaw

\* a render frame of the current model is in progress or was the last thing to happen
FrameShown ==
    /\ lastEvent = "paint"
    /\ initialized
    /\ urdf_model # <<>>
    /\ get_root(urdf_model[1]) # <<>>

JointNamed(model, name) == model.joints[IndexOf(model.joints, name)]

\* the joint's static origin transform (identity when it cannot be built)
StaticOrigin(joint) ==
    IF OriginTransform(joint.origin) = <<>> THEN Eye4 ELSE OriginTransform(joint.origin)[1]

\* the frame reached by applying A, then O, then P to a point: rotation P.O.A and
\* translation P.R (O.R A.t + O.t) + P.t
Composed(P, O, A) ==
    [R |-> MatMat(P.R, MatMat(O.R, A.R)),
     t |-> VecAdd(MatVec(P.R, VecAdd(MatVec(O.R, A.t), O.t)), P.t)]

C8_VisualOriginLocal ==
    FrameShown =>
        \A k \in DOMAIN visits :
            visits[k].parent # 0 =>
                LET joint == JointNamed(urdf_model[1], visits[k].via)
                IN visits[k].incoming =
                       Composed(visits[visits[k].parent].incoming,
                                StaticOrigin(joint),
                                Actuation(joint, AngleOf(joint_angles, joint.name)))

\* names reachable from the names in S through parent-to-child joints
RECURSIVE Reach(_, _)
Reach(model, S) ==
    LET T == S \cup {model.joints[i].child :
                        i \in {k \in DOMAIN model.joints : model.joints[k].parent \in S}}
    IN IF T = S THEN S ELSE Reach(model, T)

VisitedNames == {visits[k].link : k \in DOMAIN visits}

VisitCount(name) == Cardinality({k \in DOMAIN visits : visits[k].link = name})

\* no link is the child of two joints
JointsFormTree(model) ==
    \A i, j \in DOMAIN model.joints : i # j => model.joints[i].child # model.joints[j].child

\* C9: the traversal starts at the derived root with the identity, the links visited in
\* the frame are exactly those reachable from the root, and in a tree exactly once each.
C9_VisitsExactlyReachable ==
    FrameShown =>
        LET model == urdf_model[1]
            reachable == Reach(model, {get_root(model)[1]})
        IN /\ visits[1].link = get_root(model)[1]
           /\ visits[1].incoming = Eye4
           /\ VisitedNames \subseteq reachable
           /\ frame # "drawing" => VisitedNames = reachable
           /\ (frame # "drawing" /\ JointsFormTree(model)) =>
                  \A name \in reachable : VisitCount(name) = 1

\* C10: the traversal of a frame terminates: no link is entered again while it is being
\* traversed, and no frame ends in unbounded recursion.
C10_TraversalTerminates ==
    /\ frame # "RecursionError"
    /\ \A i, j \in DOMAIN stack : i # j => stack[i].link # stack[j].link

\* links of the model that are no joint's child, by position in insertion order
RootCandidates(model) ==
    {i \in DOMAIN model.links : \A j \in DOMAIN model.joints :
                                    model.joints[j].child # model.links[i].name}

\* C11: the derived root is a link that is no joint's child, the first such link in
\* insertion order when there are several, and there is no root exactly when every link
\* is some joint's child; a frame starts its traversal at that link and draws nothing
\* when there is none.
C11_RootDerivation ==
    urdf_model # <<>> =>
        LET model == urdf_model[1]
        IN /\ (get_root(model) = <<>>) <=> (RootCandidates(model) = {})
           /\ RootCandidates(model) # {} =>
                  get_root(model) = <<model.links[Min(RootCandidates(model))].name>>
           /\ (lastEvent = "paint" /\ initialized) =>
                  IF RootCandidates(model) = {} THEN visits = <<>>
                  ELSE visits[1].link = model.links[Min(RootCandidates(model))].name

\* a finished frame of a model with two root candidates, neither the first link
C11_Witness ==
    /\ urdf_model = <<Parsed[DocLate]>>
    /\ lastEvent = "paint"
    /\ frame = "done"
    /\ Cardinality(RootCandidates(urdf_model[1])) = 2
    /\ visits[1].link = "base"

\* C12: a description that has links but no root candidate is a load error: no load of
\* it reports success, and it never becomes the current model of the window or the view.
C12_NoRootIsLoadError ==
    /\ LoadSucceeded => get_root(urdf_model[1]) # <<>>
    /\ urdf_model # <<>> => get_root(urdf_model[1]) # <<>>
    /\ win_model # <<>> => get_root(win_model[1]) # <<>>

\* C13: after every successful load each joint's parent and child name links of the
\* model, every link is the child of at most one joint, and there is exactly one root.
C13_JointsReferenceLinks ==
    LoadSucceeded =>
        LET model == urdf_model[1]
        IN /\ \A j \in DOMAIN model.joints :
                  /\ model.joints[j].parent \in Names(model.links)
                  /\ model.joints[j].child \in Names(model.links)
           /\ JointsFormTree(model)
           /\ Cardinality(RootCandidates(model)) = 1

\* the joint element has its name, type, parent link and child link
HasRequired(e) == e.name # <<>> /\ e.type # <<>> /\ e.parent # <<>> /\ e.child # <<>>

\* C14: loading a document with a joint element that lacks its name, type, parent link
\* or child link fails with an error and installs no model; a joint that has them all
\* but no axis or origin parses with the default axis 0 0 1 and the zero origin.
C14_RequiredJointAttributes ==
    [][\A doc \in ParseDocs :
          (Load(doc) /\ doc.wellFormed /\ doc.links # <<>>) =>
              IF \E j \in DOMAIN doc.joints : ~HasRequired(doc.joints[j])
              THEN loadResult' = "error" /\ UNCHANGED <<win_model, urdf_model>>
              ELSE loadResult' = "ok" =>
                     \A j \in DOMAIN doc.joints :
                        LET e == doc.joints[j]
                            joint == JointNamed(urdf_model'[1], e.name[1])
                        IN /\ e.axis = <<>> => joint.axis = AxisZ
                           /\ e.origin = <<>> => joint.origin = DefaultOrigin]_vars

\* C15: the scene bounds do not depend on the joint parameters: an auto-fit request
\* recomputes, for the same model and mesh cache, the bounds the load computed with all
\* parameters at zero, whatever the sliders have been moved to since.
C15_BoundsIgnorePose ==
    [][lastEvent' = "autofit" => scene' = scene]_vars

\* an auto-fit of a model with visuals, right after a slider left a joint off zero
C15_Witness ==
    /\ lastEvent = "autofit"
    /\ prevEvent = "slider"
    /\ urdf_model # <<>>
    /\ \E n \in DOMAIN joint_angles : joint_angles[n] # 0
    /\ scene.scene_radius # InitRadius

\* whether a visual's geometry contributes an extent: a mesh whose file the provider
\* has loaded, or a primitive with numeric dimensions
Contributes(g) ==
    IF g.type = "mesh" THEN g.filename.path \in mesh_cache
    ELSE g.size # <<>> /\ \A i \in DOMAIN g.size : g.size[i] # BadTok

\* the local extent of a contributing geometry, as (min corner, max corner)
LocalExtent(g) ==
    CASE g.type = "box" ->
           << [k \in 1..3 |-> 0 - (g.size[k] \div 2)], [k \in 1..3 |-> g.size[k] \div 2] >>
      [] g.type = "sphere" ->
           << [k \in 1..3 |-> 0 - g.size[1]], [k \in 1..3 |-> g.size[1]] >>
      [] g.type = "cylinder" ->
           << <<0 - g.size[1], 0 - g.size[1], 0 - (g.size[2] \div 2)>>,
              <<g.size[1], g.size[1], g.size[2] \div 2>> >>
      [] g.type = "mesh" -> MeshBounds(g.filename.path)

\* the links of the model whose visual contributes
Contributing(model) ==
    {i \in DOMAIN model.links :
        model.links[i].visual # <<>> /\ Contributes(model.links[i].visual[1].geometry)}

Least(S) == CHOOSE x \in S : \A y \in S : x <= y
Greatest(S) == CHOOSE x \in S : \A y \in S : x >= y

\* the bounding box over the contributing visuals
BoxMin(model) ==
    [k \in 1..3 |->
        Least({LocalExtent(model.links[i].visual[1].geometry)[1][k] : i \in Contributing(model)})]
BoxMax(model) ==
    [k \in 1..3 |->
        Greatest({LocalExtent(model.links[i].visual[1].geometry)[2][k] : i \in Contributing(model)})]

\* C16: the bounding box is the elementwise min and max of the local extents of the
\* contributing visuals (box -size/2..size/2, sphere -r..r, cylinder -r..r on X and Y and
\* -length/2..length/2 on Z, mesh its reported bounds), the center is (min+max)/2 and the
\* radius half the diagonal; a single box of size 2 1 1 spans (-1,-0.5,-0.5)..(1,0.5,0.5).
C16_BoundingBox ==
    (AutoFitted /\ Contributing(urdf_model[1]) # {}) =>
        LET model == urdf_model[1]
            lo == BoxMin(model)
            hi == BoxMax(model)
        IN /\ scene.center = [k \in 1..3 |-> (lo[k] + hi[k]) \div 2]
           /\ scene.scene_radius = ISqrt(SumSq([k \in 1..3 |-> hi[k] - lo[k]])) \div 2
           /\ urdf_model = <<Parsed[DocBox211]>> =>
                  /\ lo = <<0 - 1000, 0 - 500, 0 - 500>>
                  /\ hi = <<1000, 500, 500>>
                  /\ Extents(model.links, mesh_cache) = << <<lo, hi>> >>

\* the bounds of a model with one visual of each kind, one of them a mesh
C16_Witness ==
    /\ LoadSucceeded
    /\ urdf_model = <<Parsed[DocMix]>>
    /\ Cardinality(Contributing(urdf_model[1])) = 4
    /\ scene.center = <<250, 250, 500>>

\* the model without the links whose visual is a mesh the provider has not loaded
WithoutMissingMeshes(model) ==
    [model EXCEPT !.links =
        SelectSeq(model.links,
                  LAMBDA l : l.visual = <<>> \/ Contributes(l.visual[1].geometry)
                                \/ l.visual[1].geometry.type # "mesh")]

\* C17: when no visual contributes an extent the bounds computation does not fail and
\* gives center (0,0,0) and radius 1.0, whatever the bounds were before; a model with
\* zero links gives the same; a mesh that is not available is skipped and the other
\* visuals give the bounds they give without it.
C17_FallbackBounds ==
    /\ calculate_scene_bounds(Parsed[DocEmpty], mesh_cache) =
           [raised |-> FALSE, center |-> Zeros3, scene_radius |-> InitRadius]
    /\ (urdf_model # <<>> /\ Contributing(urdf_model[1]) = {}) =>
           ~calculate_scene_bounds(urdf_model[1], mesh_cache).raised
    /\ (AutoFitted /\ Contributing(urdf_model[1]) = {}) =>
           scene = [center |-> Zeros3, scene_radius |-> InitRadius]
    /\ (AutoFitted /\ Contributing(urdf_model[1]) # {}) =>
           LET rest == calculate_scene_bounds(WithoutMissingMeshes(urdf_model[1]), mesh_cache)
           IN scene = [center |-> rest.center, scene_radius |-> rest.scene_radius]

\* a model whose only visuals are unavailable meshes, loaded after the sliders of a
\* model with other bounds had been moved
C17_Witness ==
    /\ LoadSucceeded
    /\ prevEvent = "slider"
    /\ urdf_model = <<Parsed[DocGhost]>>
    /\ scene = [center |-> Zeros3, scene_radius |-> InitRadius]

\* the document without its standalone materials and without the <material> children
\* of its visuals
WithoutMaterials(doc) ==
    [doc EXCEPT
        !.materials = <<>>,
        !.links = [i \in DOMAIN doc.links |->
                     [doc.links[i] EXCEPT
                        !.visual = IF doc.links[i].visual = <<>> THEN <<>>
                                   ELSE <<[doc.links[i].visual[1] EXCEPT !.material = <<>>]>>]]]

\* a load of the document ends in success
LoadsOk(doc) ==
    /\ ParseOk(doc)
    /\ doc.links # <<>>
    /\ ~calculate_scene_bounds(parser_load_model(doc),
                               PreloadAll(parser_load_model(doc))).raised

\* names of the materials defined directly under the root
Defined(doc) == {doc.materials[k].name : k \in DOMAIN doc.materials}

\* the links whose visual refers by bare name to a material that is not defined
UnresolvedRefs(doc) ==
    {i \in DOMAIN doc.links :
        /\ doc.links[i].visual # <<>>
        /\ doc.links[i].visual[1].material # <<>>
        /\ doc.links[i].visual[1].material[1].color = NoColor
        /\ doc.links[i].visual[1].material[1].name \notin Defined(doc)}

\* the current model is the one parsed from the document
Current(doc) == ParseOk(doc) /\ urdf_model = <<Parsed[doc]>>

\* in the current model the visuals with an unresolved reference are kept without a
\* material, and a frame draws each of them in the default gray
UnresolvedKeptGray(doc) ==
    \A i \in UnresolvedRefs(doc) :
        LET name == doc.links[i].name
        IN /\ HasVisual(urdf_model[1], name)
           /\ LinkOf(urdf_model[1], name)[1].visual[1].material = <<>>
           /\ FrameShown =>
                  \A k \in DOMAIN visits :
                      visits[k].link = name =>
                          visits[k].drawn /\ visits[k].color = <<DefaultGray>>

\* C18: a visual that refers by bare name to a material that is not defined never makes
\* the load fail (the document loads whenever it loads without its materials); the
\* visual is kept with no material and is drawn in the default gray (0.8, 0.8, 0.8, 1.0).
C18_UnresolvedMaterial ==
    /\ [](\A doc \in ParseDocs : Current(doc) => UnresolvedKeptGray(doc))
    /\ [][\A doc \in ParseDocs :
             (Load(doc) /\ UnresolvedRefs(doc) # {} /\ LoadsOk(WithoutMaterials(doc))) =>
                 loadResult' = "ok" /\ urdf_model' = <<Parsed[doc]>>]_vars

\* a finished frame that drew a visual whose material reference is unresolved
C18_Witness ==
    /\ Current(DocPaint)
    /\ FrameShown
    /\ frame = "done"
    /\ loadResult = "ok"
    /\ UnresolvedRefs(DocPaint) # {}
    /\ \E k \in DOMAIN visits : visits[k].link = "c" /\ visits[k].color = <<DefaultGray>>

\* the rgba tokens of a <material> element (<<>> when it has none)
RgbaOf(e) ==
    IF e.color # NoColor /\ e.color[1].rgba # <<>> THEN e.color[1].rgba[1] ELSE <<>>

\* the rgba text is non-numeric or has fewer than three channels
Malformed(e) ==
    \/ \E i \in DOMAIN RgbaOf(e) : RgbaOf(e)[i] = BadTok
    \/ Len(RgbaOf(e)) < 3

\* the definition that counts for a name: the last one in the document
LastDefinition(doc, k) ==
    \A m \in DOMAIN doc.materials : doc.materials[m].name = doc.materials[k].name => m <= k

\* the registry entry of the model under a name
Registered(model, name) == model.materials[IndexOf(model.materials, name)]

\* C19: a standalone material whose rgba text is non-numeric or has fewer than three
\* channels is registered under its name with the default gray, a three-channel color
\* gets alpha 1.0, and parsing continues: the load succeeds whenever the document loads
\* without its materials, and every material, link and joint of the document is in the
\* model.
C19_MalformedColor ==
    /\ [](\A doc \in ParseDocs :
             Current(doc) =>
                LET model == urdf_model[1]
                IN /\ Names(model.materials) = Defined(doc)
                   /\ Names(model.links) = {doc.links[i].name : i \in DOMAIN doc.links}
                   /\ Names(model.joints) = {doc.joints[j].name[1] : j \in DOMAIN doc.joints}
                   /\ \A k \in DOMAIN doc.materials :
                          LastDefinition(doc, k) =>
                             LET e == doc.materials[k]
                                 color == Registered(model, e.name).color
                             IN /\ Malformed(e) => color = DefaultGray
                                /\ (~Malformed(e) /\ Len(RgbaOf(e)) = 3) =>
                                       color = RgbaOf(e) \o <<1000>>
                                /\ (~Malformed(e) /\ Len(RgbaOf(e)) > 3) =>
                                       color = SubSeq(RgbaOf(e), 1, 4))
    /\ [][\A doc \in ParseDocs :
             (/\ Load(doc)
              /\ \E k \in DOMAIN doc.materials : Malformed(doc.materials[k])
              /\ LoadsOk(WithoutMaterials(doc))) =>
                 loadResult' = "ok" /\ urdf_model' = <<Parsed[doc]>>]_vars

\* a loaded document with a non-numeric, a two-channel and a three-channel material
C19_Witness ==
    /\ LoadSucceeded
    /\ Current(DocPaint)
    /\ Registered(urdf_model[1], "rust").color = DefaultGray
    /\ Registered(urdf_model[1], "thin").color = DefaultGray
    /\ Registered(urdf_model[1], "red").color = <<1000, 0, 0, 1000>>
    /\ Len(urdf_model[1].links) = 7
    /\ Len(urdf_model[1].joints) = 6

\* the <material> child of the visual of a link element (<<>> when there is none)
MaterialOf(link_elem) ==
    IF link_elem.visual = <<>> THEN <<>> ELSE link_elem.visual[1].material

\* the material object of the visual of a link of the current model
VisualMaterial(model, name) == LinkOf(model, name)[1].visual[1].material

\* C20: a bare name reference resolves to the registered material wherever in the
\* document that material is defined, so all visuals referring to one name share the
\* registry's material; an inline color definition takes priority over a registered
\* material of the same name and is never added to the registry.
C20_MaterialResolution ==
    \A doc \in ParseDocs :
        Current(doc) =>
            LET model == urdf_model[1]
            IN /\ \A i \in DOMAIN doc.links :
                      LET m == MaterialOf(doc.links[i])
                          got == VisualMaterial(model, doc.links[i].name)
                      IN /\ (m # <<>> /\ m[1].color = NoColor /\ m[1].name \in Defined(doc)) =>
                                /\ got # <<>>
                                /\ got[1].registered
                                /\ got[1].name = m[1].name
                                /\ got[1].color = Registered(model, m[1].name).color
                         /\ (m # <<>> /\ m[1].color # NoColor) =>
                                /\ got # <<>> => ~got[1].registered
                                /\ ~Malformed(m[1]) =>
                                       /\ got # <<>>
                                       /\ got[1].color = SubSeq(RgbaOf(m[1]) \o <<1000>>, 1, 4)
               /\ Names(model.materials) = Defined(doc)
               /\ \A k \in DOMAIN doc.materials :
                      (LastDefinition(doc, k) /\ ~Malformed(doc.materials[k])) =>
                          Registered(model, doc.materials[k].name).color =
                              SubSeq(RgbaOf(doc.materials[k]) \o <<1000>>, 1, 4)

\* a loaded document in which two visuals share a registered material, one refers to a
\* material defined after every link, and one paints itself inline under a registered
\* name
C20_Witness ==
    /\ LoadSucceeded
    /\ Current(DocPaint)
    /\ VisualMaterial(urdf_model[1], "a") = VisualMaterial(urdf_model[1], "e")
    /\ VisualMaterial(urdf_model[1], "a")[1].registered
    /\ VisualMaterial(urdf_model[1], "b")[1].color = <<1000, 0, 0, 1000>>
    /\ VisualMaterial(urdf_model[1], "d")[1].color = <<0, 1000, 0, 1000>>
    /\ ~VisualMaterial(urdf_model[1], "d")[1].registered
    /\ Registered(urdf_model[1], "steel").color = <<500, 500, 500, 1000>>

\* the materials a model holds: the registered ones and those of its visuals
HeldMaterials(model) ==
    {model.materials[i] : i \in DOMAIN model.materials}
    \cup {[name |-> model.links[i].visual[1].material[1].name,
           color |-> model.links[i].visual[1].material[1].color] :
             i \in {k \in DOMAIN model.links :
                      /\ model.links[k].visual # <<>>
                      /\ model.links[k].visual[1].material # <<>>}}

\* C21: every material held by a loaded model, registered or inline, has exactly four
\* color channels and each channel lies in [0, 1].
C21_ColorChannelsInRange ==
    urdf_model # <<>> =>
        \A m \in HeldMaterials(urdf_model[1]) :
            /\ Len(m.color) = 4
            /\ \A k \in DOMAIN m.color : m.color[k] >= 0 /\ m.color[k] <= 1000

\* rotations by an angle about the coordinate axes
RotX(a) == [R |-> << <<1, 0, 0>>, <<0, Cos(a), 0 - Sin(a)>>, <<0, Sin(a), Cos(a)>> >>,
            t |-> Zeros3]
RotY(a) == [R |-> << <<Cos(a), 0, Sin(a)>>, <<0, 1, 0>>, <<0 - Sin(a), 0, Cos(a)>> >>,
            t |-> Zeros3]
RotZ(a) == [R |-> << <<Cos(a), 0 - Sin(a), 0>>, <<Sin(a), Cos(a), 0>>, <<0, 0, 1>> >>,
            t |-> Zeros3]

\* the rotation by an angle about an axis that lies along a coordinate axis
RotationAbout(axis, a) ==
    CASE axis[1] > 0 /\ axis[2] = 0 /\ axis[3] = 0 -> RotX(a)
      [] axis[1] < 0 /\ axis[2] = 0 /\ axis[3] = 0 -> RotX(0 - a)
      [] axis[1] = 0 /\ axis[2] > 0 /\ axis[3] = 0 -> RotY(a)
      [] axis[1] = 0 /\ axis[2] < 0 /\ axis[3] = 0 -> RotY(0 - a)
      [] axis[1] = 0 /\ axis[2] = 0 /\ axis[3] > 0 -> RotZ(a)
      [] axis[1] = 0 /\ axis[2] = 0 /\ axis[3] < 0 -> RotZ(0 - a)

\* the translation by a vector
TranslationBy(v) == [R |-> Eye3, t |-> v]

\* the parameter of a joint: its entry of the mapping, 0 when it has none
ParameterOf(name) == IF name \in DOMAIN joint_angles THEN joint_angles[name] ELSE 0

\* the actuation a joint's type and parameter determine
ActuationByType(joint) ==
    CASE joint.type \in {"revolute", "continuous"} ->
             RotationAbout(joint.axis, ParameterOf(joint.name))
      [] joint.type = "prismatic" ->
             TranslationBy([i \in 1..3 |-> joint.axis[i] * ParameterOf(joint.name)])
      [] OTHER -> Eye4

\* C22: the actuation applied at every joint visited is determined by its type and
\* current parameter: identity for fixed and unrecognized types whatever the parameter,
\* a rotation by the parameter about the axis for revolute and continuous, a translation
\* of axis times parameter for prismatic, the parameter being 0 for a joint that has no
\* entry in the mapping.
C22_ActuationByType ==
    FrameShown =>
        \A k \in DOMAIN visits :
            visits[k].parent # 0 =>
                LET joint == JointNamed(urdf_model[1], visits[k].via)
                IN visits[k].incoming =
                       Composed(visits[visits[k].parent].current,
                                StaticOrigin(joint),
                                ActuationByType(joint))

\* a finished frame of a model whose fixed joint and whose joint of unknown type both
\* have a non-zero parameter in the mapping, the fixed one without an entry of its own
\* until a slider wrote it
C22_Witness ==
    /\ FrameShown
    /\ frame = "done"
    /\ urdf_model = <<Parsed[DocStale]>>
    /\ ParameterOf("shoulder") # 0
    /\ ParameterOf("slide") # 0
    /\ \E k \in DOMAIN visits : visits[k].via = "shoulder"
    /\ \E k \in DOMAIN visits : visits[k].via = "slide"

\* the camera with another pitch
Pitched(p) == [camera EXCEPT !.pitch = p]

\* C23: each camera gesture changes only the camera fields it owns: an orbit drag only
\* yaw and pitch; a pan drag only X and Y of the orbit center, by an amount that is the
\* same whatever the pitch; a scroll only the distance.
C23_GesturesOwnFields ==
    [][/\ \A pos \in MousePositions, buttons \in ButtonSets :
            (MouseMove(pos, buttons) /\ last_mouse_pos # <<>>) =>
                IF "left" \in buttons
                THEN /\ camera'.center = camera.center
                     /\ camera'.distance = camera.distance
                ELSE IF "right" \in buttons
                THEN /\ camera'.yaw = camera.yaw
                     /\ camera'.pitch = camera.pitch
                     /\ camera'.distance = camera.distance
                     /\ camera'.center[3] = camera.center[3]
                     /\ \A p \in {0, InitPitch, PitchLimit, 0 - PitchLimit} :
                            camera'.center =
                                PanCenter(Pitched(p), pos[1] - last_mouse_pos[1][1],
                                                      pos[2] - last_mouse_pos[1][2])
                ELSE camera' = camera
       /\ \A ticks \in WheelTicks :
            Wheel(ticks) =>
                /\ camera'.yaw = camera.yaw
                /\ camera'.pitch = camera.pitch
                /\ camera'.center = camera.center]_vars

\* a view that a pan drag has moved after an orbit drag had tilted it
C23_Witness ==
    /\ lastEvent = "mouse"
    /\ prevEvent = "mouse"
    /\ gestures = 2
    /\ camera.center[1] # 0
    /\ camera.center[2] # 0
    /\ camera.pitch = PitchLimit
    /\ camera.distance = InitDistance

\* the resolved mesh files the visuals of a model refer to
MeshFiles(model) ==
    {resolve_filename(model.links[i].visual[1].geometry.filename) :
        i \in {k \in DOMAIN model.links : IsMeshVisual(model.links[k])}}

\* C24: the mesh cache holds entries only for mesh files the current model refers to
\* (none while there is no model), a load that installs a model leaves the display-list
\* cache empty, and no step other than a load removes an entry of either cache.
C24_CachesFollowModel ==
    /\ [](/\ urdf_model = <<>> => mesh_cache = {} /\ display_list_cache = {}
          /\ urdf_model # <<>> =>
                 /\ mesh_cache \subseteq MeshFiles(urdf_model[1])
                 /\ display_list_cache \subseteq MeshFiles(urdf_model[1]))
    /\ [][/\ \A doc \in CacheDocs :
                (Load(doc) /\ ParseOk(doc) /\ urdf_model' = <<Parsed[doc]>>
                           /\ loadResult' # "no_links") =>
                    display_list_cache' = {}
          /\ (~\E doc \in CacheDocs : Load(doc)) =>
                /\ mesh_cache \subseteq mesh_cache'
                /\ display_list_cache \subseteq display_list_cache']_vars

\* a model with its own mesh has just been loaded over one whose mesh the last frame drew
C24_Witness ==
    /\ LoadSucceeded
    /\ Current(DocWheel)
    /\ mesh_cache = {"wheel.stl"}
    /\ display_list_cache = {}
    /\ \E k \in DOMAIN visits : visits[k].link = "body" /\ visits[k].drawn

\* the type of the joint of the current model with the given name ("" when there is none)
TypeOf(name) ==
    IF urdf_model # <<>> /\ IndexOf(urdf_model[1].joints, name) # 0
    THEN JointNamed(urdf_model[1], name).type
    ELSE ""

\* C25: after a joint-parameter-changed(name, v) event for a prismatic joint the mapping
\* holds v itself, a displacement with no degree-to-radian conversion; the conversion
\* applies to revolute and continuous joints only.
C25_PrismaticDisplacement ==
    [][\A name \in DOMAIN joint_sliders, value \in SliderValues :
          SliderChanged(name, value) =>
              /\ TypeOf(name) = "prismatic" => joint_angles'[name] = value * 1000
              /\ TypeOf(name) \in {"revolute", "continuous"} =>
                     joint_angles'[name] = Radians(value)]_vars

\* the joint names of the model the viewer holds (none while it holds no model)
CurrentJointNames == IF urdf_model = <<>> THEN {} ELSE Names(urdf_model[1].joints)

\* C26: every key of the joint-parameter mapping is the name of a joint of the model the
\* viewer currently holds, and so is the name of every slider that can still emit a
\* joint-parameter-changed event.
C26_KeysNameCurrentJoints ==
    /\ DOMAIN joint_angles \subseteq CurrentJointNames
    /\ DOMAIN joint_sliders \subseteq CurrentJointNames

\* the camera after a drag of (dx, dy) with the given buttons held
Dragged(dx, dy, buttons) ==
    IF "left" \in buttons
    THEN [camera EXCEPT !.yaw = camera.yaw + dx, !.pitch = OrbitPitch(camera.pitch, dy)]
    ELSE IF "right" \in buttons
    THEN [camera EXCEPT !.center = PanCenter(camera, dx, dy)]
    ELSE camera

\* C27: a pointer move changes the camera only between a press and the following
\* release and while the primary or secondary button is held, the primary one taking
\* precedence; a move with no press before it or after a release, a press or a release
\* by itself, and a move with only another button held leave the camera unchanged; the
\* delta is measured from the position of the previous press or move.
C27_DragOnlyWhilePressed ==
    [][/\ \A pos \in MousePositions :
            MousePress(pos) => camera' = camera /\ last_mouse_pos' = <<pos>>
       /\ MouseRelease => camera' = camera /\ last_mouse_pos' = <<>>
       /\ \A pos \in MousePositions, buttons \in ButtonSets :
            MouseMove(pos, buttons) =>
                IF last_mouse_pos = <<>>
                THEN camera' = camera /\ last_mouse_pos' = <<>>
                ELSE /\ last_mouse_pos' = <<pos>>
                     /\ camera' = Dragged(pos[1] - last_mouse_pos[1][1],
                                          pos[2] - last_mouse_pos[1][2], buttons)]_vars

\* an orbit drag has turned the view, the button has been released, and nothing has
\* changed the camera since
C27_Witness ==
    /\ lastEvent = "mouse"
    /\ prevEvent = "mouse"
    /\ last_mouse_pos = <<>>
    /\ gestures = 1
    /\ camera.yaw = InitYaw + 180
    /\ camera.pitch = PitchLimit

\* C28: after reset-view, whatever the camera was before, the orbit center is (0,0,0),
\* yaw is 45, pitch is 20 (not the camera's initial 30) and the distance is twice the
\* last computed scene radius, clamped; with no model ever loaded that is 2.0; an
\* auto-fit request with no model loaded leaves the camera unchanged.
C28_ResetViewResult ==
    /\ [](lastEvent = "reset" =>
             /\ camera.center = Zeros3
             /\ camera.yaw = 2 * 45
             /\ camera.pitch = 2 * 20
             /\ camera.pitch # InitPitch
             /\ camera.distance = Clip(FDouble(scene.scene_radius), ZoomMin, ZoomMax)
             /\ urdf_model = <<>> => camera.distance = 2000)
    /\ [][(lastEvent' = "autofit" /\ urdf_model = <<>>) => camera' = camera]_vars

\* a reset of the view of a loaded model in the middle of a drag, after the gestures
\* had changed the camera
C28_Witness ==
    /\ lastEvent = "reset"
    /\ prevEvent = "mouse"
    /\ gestures = MaxGestures
    /\ urdf_model # <<>>
    /\ scene.scene_radius # InitRadius
    /\ last_mouse_pos # <<>>

====
